---- MODULE Spec2Model ----
(***************************************************************************)
(* A model of the trade-data application's two pipelines:                  *)
(*                                                                         *)
(*   - the submission pipeline of src/unnamed/part_000 (processTradeData,  *)
(*     getHSCodeDescription, makeRequest), under SubmitSpec;               *)
(*   - the aggregation pipeline of src/src/components/                     *)
(*     TradeAnalysisChart.tsx (fetchTradeStats, chartData), under          *)
(*     ChartSpec.                                                          *)
(*                                                                         *)
(* An async function is cut at its awaits: each action is the code that    *)
(* runs between two awaits.                                                *)
(***************************************************************************)
EXTENDS Integers, Sequences, FiniteSets, TLC

VARIABLES
    DEV_MODE,     \* part_000:6, the bypass switch
    pc,           \* where the submission is: start, lookup, request, delay, done
    hsCode,       \* processTradeData's first argument, a JavaScript value
    tradeType,    \* processTradeData's second argument
    payload,      \* the TradeWebhookPayload built at part_000:108-114
    attempt,      \* makeRequest's attempt parameter
    events,       \* history: every axios.post and every delay(), in order
    caught,       \* history: every error the catch block of line 66 received
    lookups,      \* history: number of description queries issued
    described,    \* history: what each description query produced, in order
    result,       \* the promise processTradeData returns: pending, resolved, rejected
    table,        \* the trade_stats rows of the chart's first code and its flow, in the store
    mounted,      \* whether the effect of TradeAnalysisChart.tsx:106-109 has run
    hsCodeProp,   \* the component's hsCode prop, TradeAnalysisChart.tsx:50
    timeRange,    \* TradeAnalysisChart.tsx:55
    loading,      \* TradeAnalysisChart.tsx:51
    tradeStats,   \* TradeAnalysisChart.tsx:52
    pending,      \* fetchTradeStats calls awaiting their query (line 144), oldest first
    lastRaw,      \* history: data of the last query that completed, <<>> if it failed
    toast,        \* the toast.error message of the step just taken (line 161), or ""
    session,      \* whether getSession() yields a session, part_001:9-11
    pathname,     \* req.nextUrl.pathname of the request at hand
    stage,        \* where that request is: arrived, session, passed, redirected
    location,     \* the target of the redirect response, "" if there is none
    hops          \* history: the paths requested since the navigation began

submitVars ==
    <<DEV_MODE, pc, hsCode, tradeType, payload, attempt, events, caught, lookups,
      described, result>>
chartVars ==
    <<table, mounted, hsCodeProp, timeRange, loading, tradeStats, pending, lastRaw,
      toast>>
routeVars == <<session, pathname, stage, location, hops>>
vars == <<submitVars, chartVars, routeVars>>

(***************************************************************************)
(* Bounds of the model.                                                    *)
(***************************************************************************)
\* longest digit run offered as candidate code
MaxCodeLen == 11
\* most rows the store holds for the chart's code and flow
MaxRows == 3
\* most fetchTradeStats calls awaiting their query at a time
MaxInFlight == 3
\* most rows the store holds for the chart's code while the code changes
MaxRowsInFlight == 1
\* most requests of one navigation (the first and the redirects followed)
MaxHops == 3

(***************************************************************************)
(* Strings that the code inspects character by character are sequences of  *)
(* one-character strings.                                                  *)
(***************************************************************************)
DigitChars == <<"0", "1", "2", "3", "4", "5", "6", "7", "8", "9">>

IsDigit(c) == \E i \in 1..10 : DigitChars[i] = c

\* characters String.prototype.trim removes (those the model offers)
WhiteSpace == {" ", "\t", "\n"}

RECURSIVE TrimStart(_)
TrimStart(s) ==
    IF s # <<>> /\ Head(s) \in WhiteSpace THEN TrimStart(Tail(s)) ELSE s

RECURSIVE TrimEnd(_)
TrimEnd(s) ==
    IF s # <<>> /\ s[Len(s)] \in WhiteSpace
    THEN TrimEnd(SubSeq(s, 1, Len(s) - 1))
    ELSE s

\* hsCode.trim()
Trim(s) == TrimEnd(TrimStart(s))

\* the repetition count of \d{10}
HTS_DIGITS == 10

\* seeded fault in TestTenDigits: the pattern without its anchors, /\d{10}/
TestTenDigitsUnanchored(s) ==
    \E i \in 1..Len(s) :
        /\ i + HTS_DIGITS - 1 <= Len(s)
        /\ \A k \in i..(i + HTS_DIGITS - 1) : IsDigit(s[k])

\* /^\d{10}$/.test(s): no m flag, so ^ and $ are the ends of the input
TestTenDigits(s) ==
    /\ Len(s) = HTS_DIGITS
    /\ \A i \in 1..Len(s) : IsDigit(s[i])

\* JavaScript values offered as hsCode: [t |-> typeof, s |-> characters]
JsString(s) == [t |-> "string", s |-> s]
NonStrings ==
    { [t |-> "number", s |-> <<>>],
      [t |-> "undefined", s |-> <<>>],
      [t |-> "object", s |-> <<>>] }

\* "1234567890123..." cut to n characters
DigitRun(n) == [i \in 1..n |-> DigitChars[(i % 10) + 1]]

ReplaceAt(s, i, c) == [s EXCEPT ![i] = c]

NonDigitChars == {"a", "-", " "}

Bodies ==
    { DigitRun(n) : n \in 0..MaxCodeLen }
    \cup UNION { { ReplaceAt(DigitRun(n), i, c) : i \in {1, 5, n}, c \in NonDigitChars } :
                   n \in (HTS_DIGITS - 1)..MaxCodeLen }

LeadPads == {<<>>, <<"\t", " ">>}
TrailPads == {<<>>, <<"\n">>}

HsCodeInputs ==
    { JsString(l \o b \o r) : l \in LeadPads, b \in Bodies, r \in TrailPads }
    \cup NonStrings

TradeTypeInputs == {"Import", "Export", "import", "EXPORT", " Import", ""}

(***************************************************************************)
(* processTradeData's validation, part_000:95-102.                         *)
(***************************************************************************)
InvalidCodeMsg == "Invalid HTS code format. Must be exactly 10 digits."
InvalidTypeMsg == "Invalid trade type. Must be \"Import\" or \"Export\"."

\* the condition of the if at line 95
CodeRejected(v) == v.t # "string" \/ ~TestTenDigits(Trim(v.s))

\* the condition of the if at line 100
\* seeded fault in TypeRejected: the comparison made after lower-casing
TypeRejectedIgnoringCase(t) ==
    t \notin {"Import", "Export", "import", "export", "IMPORT", "EXPORT"}

TypeRejected(t) == t # "Import" /\ t # "Export"

(***************************************************************************)
(* The promise a call returns.                                             *)
(***************************************************************************)
NoPayload ==
    [hsCode |-> <<>>, hsCodeDescription |-> "", tradeType |-> "",
     timestamp |-> "", requestId |-> ""]

Pending == [state |-> "pending", message |-> "", success |-> FALSE, data |-> NoPayload]
Rejected(msg) == [state |-> "rejected", message |-> msg, success |-> FALSE, data |-> NoPayload]
\* resolved with the bypass object of lines 49-53
ResolvedBypass(p) ==
    [state |-> "resolved", message |-> "Webhook bypassed in development mode",
     success |-> TRUE, data |-> p]
\* resolved with response.data, line 65
ResolvedWith(body) ==
    [state |-> "resolved", message |-> body, success |-> TRUE, data |-> NoPayload]

(***************************************************************************)
(* getHSCodeDescription, part_000:25-43.  A query outcome is what the      *)
(* awaited supabase call produced: it threw, or it returned {data, error}. *)
(***************************************************************************)
LookupOutcomes ==
    { [threw |-> TRUE,  error |-> FALSE, hasData |-> FALSE, description |-> ""],
      [threw |-> FALSE, error |-> TRUE,  hasData |-> FALSE, description |-> ""],
      [threw |-> FALSE, error |-> FALSE, hasData |-> FALSE, description |-> ""],
      [threw |-> FALSE, error |-> FALSE, hasData |-> TRUE,  description |-> ""],
      [threw |-> FALSE, error |-> FALSE, hasData |-> TRUE,  description |-> "Live horses"] }

DescriptionNotAvailable == "Description not available"

\* seeded fault in getHSCodeDescription: an empty description returned as is
\* (the || of line 38 left out)
getHSCodeDescriptionKeepingEmpty(o) ==
    IF o.threw THEN DescriptionNotAvailable
    ELSE IF o.error THEN DescriptionNotAvailable
    ELSE IF o.hasData THEN o.description
    ELSE DescriptionNotAvailable

getHSCodeDescription(o) ==
    IF o.threw THEN DescriptionNotAvailable                      \* lines 39-42
    ELSE IF o.error THEN DescriptionNotAvailable                 \* lines 33-36
    ELSE IF o.hasData /\ o.description # "" THEN o.description   \* line 38
    ELSE DescriptionNotAvailable

\* values new Date().toISOString() and uuidv4() may return (lines 112-113)
Timestamps == {"2025-03-25T10:00:00.000Z", "2025-03-25T10:00:01.000Z"}
RequestIds == {"uuid-a", "uuid-b"}

\* the object literal of lines 108-114
BuildPayload(code, description, type, ts, id) ==
    [hsCode |-> Trim(code.s), hsCodeDescription |-> description, tradeType |-> type,
     timestamp |-> ts, requestId |-> id]

(***************************************************************************)
(* makeRequest, part_000:45-90.                                            *)
(***************************************************************************)
MAX_RETRIES == 3
RETRY_DELAY == 1000
REQUEST_TIMEOUT == 15000

\* What the awaited axios.post of lines 57-63 can throw.  cause is what
\* happened on the wire; the other fields are what the catch block reads:
\* axios.isAxiosError(error), error.code, error.response?.status (0: no
\* response) and error.message.
PostFailures ==
    { [cause |-> "timeout", isAxiosError |-> TRUE, code |-> "ECONNABORTED", status |-> 0,
       message |-> "timeout of 15000ms exceeded"],
      [cause |-> "unreachable", isAxiosError |-> TRUE, code |-> "ERR_NETWORK", status |-> 0,
       message |-> "Network Error"],
      [cause |-> "http400", isAxiosError |-> TRUE, code |-> "ERR_BAD_REQUEST", status |-> 400,
       message |-> "Request failed with status code 400"],
      [cause |-> "http401", isAxiosError |-> TRUE, code |-> "ERR_BAD_REQUEST", status |-> 401,
       message |-> "Request failed with status code 401"],
      [cause |-> "http500", isAxiosError |-> TRUE, code |-> "ERR_BAD_RESPONSE", status |-> 500,
       message |-> "Request failed with status code 500"],
      [cause |-> "http503", isAxiosError |-> TRUE, code |-> "ERR_BAD_RESPONSE", status |-> 503,
       message |-> "Request failed with status code 503"],
      [cause |-> "other", isAxiosError |-> FALSE, code |-> "", status |-> 0,
       message |-> "Unexpected token < in JSON"],
      [cause |-> "other", isAxiosError |-> FALSE, code |-> "", status |-> 0,
       message |-> ""] }

\* bodies a 2xx response may carry (response.data, line 65)
ResponseBodies == {"Workflow was started", ""}

\* seeded fault in ClassifyFailure: the status 500 branch of lines 84-86 left out
ClassifyFailureNo500(error) ==
    IF error.isAxiosError /\ error.code = "ECONNABORTED"
        THEN "Request timed out. Please try again."
    ELSE IF error.isAxiosError /\ error.code = "ERR_NETWORK"
        THEN "Network error. Please check your internet connection."
    ELSE IF error.isAxiosError /\ error.status = 400
        THEN "Invalid request: Please check HTS code format and trade type"
    ELSE IF error.isAxiosError /\ error.status = 401
        THEN "Unauthorized: Authentication failed"
    ELSE "Failed to process trade data: "
             \o (IF error.message # "" THEN error.message ELSE "Unknown error")

\* the message of the Error thrown at lines 73-88
ClassifyFailure(error) ==
    IF error.isAxiosError /\ error.code = "ECONNABORTED"
        THEN "Request timed out. Please try again."
    ELSE IF error.isAxiosError /\ error.code = "ERR_NETWORK"
        THEN "Network error. Please check your internet connection."
    ELSE IF error.isAxiosError /\ error.status = 400
        THEN "Invalid request: Please check HTS code format and trade type"
    ELSE IF error.isAxiosError /\ error.status = 401
        THEN "Unauthorized: Authentication failed"
    ELSE IF error.isAxiosError /\ error.status = 500
        THEN "Server error: Failed to process trade data"
    ELSE "Failed to process trade data: "
             \o (IF error.message # "" THEN error.message ELSE "Unknown error")

\* seeded fault in ShouldRetry: the comparison off by one
ShouldRetryOnceMore(n) == n <= MAX_RETRIES

\* the condition of the if at line 67
ShouldRetry(n) == n < MAX_RETRIES

\* the argument of delay() at line 69
BackoffDelay(n) == RETRY_DELAY * n

PostEvent(p, n) == [type |-> "post", ms |-> REQUEST_TIMEOUT, attempt |-> n, body |-> p]
DelayEvent(ms, n) == [type |-> "delay", ms |-> ms, attempt |-> n, body |-> NoPayload]

\* seeded fault in makeRequest: the bypass branch never taken
makeRequestNoBypass(p, n) ==
    /\ events' = Append(events, PostEvent(p, n))
    /\ pc' = "request"
    /\ attempt' = n
    /\ UNCHANGED result

\* makeRequest(p, n) up to its await: the bypass return of lines 47-54, or
\* the axios.post of line 57 being issued
makeRequest(p, n) ==
    IF DEV_MODE
    THEN /\ result' = ResolvedBypass(p)
         /\ pc' = "done"
         /\ attempt' = n
         /\ UNCHANGED events
    ELSE /\ events' = Append(events, PostEvent(p, n))
         /\ pc' = "request"
         /\ attempt' = n
         /\ UNCHANGED result

(***************************************************************************)
(* The submission, step by step.                                           *)
(***************************************************************************)
SubmitInit ==
    /\ DEV_MODE \in BOOLEAN
    /\ hsCode \in HsCodeInputs
    /\ tradeType \in TradeTypeInputs
    /\ pc = "start"
    /\ payload = NoPayload
    /\ attempt = 0
    /\ events = <<>>
    /\ caught = <<>>
    /\ lookups = 0
    /\ described = <<>>
    /\ result = Pending
    \* the chart is not part of a submission: it stays as mounted
    /\ table = <<>>
    /\ mounted = FALSE
    /\ hsCodeProp = "0101210000"   \* FirstCode
    /\ timeRange = "current"
    /\ loading = TRUE
    /\ tradeStats = <<>>
    /\ pending = <<>>
    /\ lastRaw = <<>>
    /\ toast = ""
    /\ session = FALSE
    /\ pathname = ""
    /\ stage = "none"
    /\ location = ""
    /\ hops = <<>>

\* seeded fault in Validate: the description query issued ahead of the
\* direction check
ValidateDirectionLate ==
    /\ pc = "start"
    /\ IF CodeRejected(hsCode)
       THEN /\ result' = Rejected(InvalidCodeMsg)
            /\ pc' = "done"
            /\ UNCHANGED lookups
       ELSE IF TypeRejected(tradeType)
       THEN /\ result' = Rejected(InvalidTypeMsg)
            /\ pc' = "done"
            /\ lookups' = lookups + 1
       ELSE /\ pc' = "lookup"
            /\ lookups' = lookups + 1
            /\ UNCHANGED result
    /\ UNCHANGED <<DEV_MODE, described, hsCode, tradeType, payload, attempt, events, caught>>
    /\ UNCHANGED <<chartVars, routeVars>>

\* processTradeData, lines 93-105: both checks, then the description query
\* is issued; a throw is caught and rethrown at lines 117-120
Validate ==
    /\ pc = "start"
    /\ IF CodeRejected(hsCode)
       THEN /\ result' = Rejected(InvalidCodeMsg)
            /\ pc' = "done"
            /\ UNCHANGED lookups
       ELSE IF TypeRejected(tradeType)
       THEN /\ result' = Rejected(InvalidTypeMsg)
            /\ pc' = "done"
            /\ UNCHANGED lookups
       ELSE /\ pc' = "lookup"
            /\ lookups' = lookups + 1
            /\ UNCHANGED result
    /\ UNCHANGED <<DEV_MODE, described, hsCode, tradeType, payload, attempt, events, caught>>
    /\ UNCHANGED <<chartVars, routeVars>>

\* the description query returns: lines 27-42, then lines 108-116 and the
\* first makeRequest up to its await
LookupReturns ==
    /\ pc = "lookup"
    /\ \E o \in LookupOutcomes, ts \in Timestamps, id \in RequestIds :
         LET p == BuildPayload(hsCode, getHSCodeDescription(o), tradeType, ts, id)
         IN  /\ described' = Append(described, o)
             /\ payload' = p
             /\ makeRequest(p, 1)
    /\ UNCHANGED <<DEV_MODE, hsCode, tradeType, caught, lookups>>
    /\ UNCHANGED <<chartVars, routeVars>>

\* seeded fault in PostSucceeds: the catch block's backoff entered after a
\* resolved post as well
PostSucceedsThenBacksOff ==
    /\ pc = "request"
    /\ \E body \in ResponseBodies : result' = ResolvedWith(body)
    /\ IF ShouldRetry(attempt)
       THEN /\ events' = Append(events, DelayEvent(BackoffDelay(attempt), attempt))
            /\ pc' = "delay"
       ELSE /\ pc' = "done"
            /\ UNCHANGED events
    /\ UNCHANGED <<DEV_MODE, described, hsCode, tradeType, payload, attempt, caught, lookups>>
    /\ UNCHANGED <<chartVars, routeVars>>

\* axios.post resolves: line 65
PostSucceeds ==
    /\ pc = "request"
    /\ \E body \in ResponseBodies : result' = ResolvedWith(body)
    /\ pc' = "done"
    /\ UNCHANGED <<DEV_MODE, described, hsCode, tradeType, payload, attempt, events, caught, lookups>>
    /\ UNCHANGED <<chartVars, routeVars>>

\* seeded fault in PostFails: an HTTP 400 is not retried
PostFailsGivingUpOn400 ==
    /\ pc = "request"
    /\ \E error \in PostFailures :
         /\ caught' = Append(caught, error)
         /\ IF ShouldRetry(attempt) /\ error.status # 400
            THEN /\ events' = Append(events, DelayEvent(BackoffDelay(attempt), attempt))
                 /\ pc' = "delay"
                 /\ UNCHANGED result
            ELSE /\ result' = Rejected(ClassifyFailure(error))
                 /\ pc' = "done"
                 /\ UNCHANGED events
    /\ UNCHANGED <<DEV_MODE, described, hsCode, tradeType, payload, attempt, lookups>>
    /\ UNCHANGED <<chartVars, routeVars>>

\* axios.post rejects: the catch block, lines 66-89, up to its await
PostFails ==
    /\ pc = "request"
    /\ \E error \in PostFailures :
         /\ caught' = Append(caught, error)
         /\ IF ShouldRetry(attempt)
            THEN /\ events' = Append(events, DelayEvent(BackoffDelay(attempt), attempt))
                 /\ pc' = "delay"
                 /\ UNCHANGED result
            ELSE /\ result' = Rejected(ClassifyFailure(error))
                 /\ pc' = "done"
                 /\ UNCHANGED events
    /\ UNCHANGED <<DEV_MODE, described, hsCode, tradeType, payload, attempt, lookups>>
    /\ UNCHANGED <<chartVars, routeVars>>

\* seeded fault in DelayFires: the retry sends a payload with a requestId
\* of its own
DelayFiresWithNewRequestId ==
    /\ pc = "delay"
    /\ \E id \in RequestIds :
         makeRequest([payload EXCEPT !.requestId = id], attempt + 1)
    /\ UNCHANGED <<DEV_MODE, described, hsCode, tradeType, payload, caught, lookups>>
    /\ UNCHANGED <<chartVars, routeVars>>

\* the timer of line 69 fires: line 70, the next makeRequest up to its await
DelayFires ==
    /\ pc = "delay"
    /\ makeRequest(payload, attempt + 1)
    /\ UNCHANGED <<DEV_MODE, described, hsCode, tradeType, payload, caught, lookups>>
    /\ UNCHANGED <<chartVars, routeVars>>

SubmitNext ==
    \/ Validate
    \/ LookupReturns
    \/ PostSucceeds
    \/ PostFails
    \/ DelayFires

\* one submission, from the call of processTradeData to its promise settling
SubmitSpec == SubmitInit /\ [][SubmitNext]_vars

\* The same submission under the scheduling the code relies on: synchronous
\* code runs to its next await, every axios.post settles (it resolves,
\* rejects, or is aborted at REQUEST_TIMEOUT, lines 57-63) and every timer
\* of delay() fires (line 22).  The description query of lines 27-31 has no
\* deadline: nothing in the code makes it settle.
SubmitFairSpec ==
    /\ SubmitInit
    /\ [][SubmitNext]_vars
    /\ WF_vars(Validate)
    /\ WF_vars(PostSucceeds \/ PostFails)
    /\ WF_vars(DelayFires)

(***************************************************************************)
(* JavaScript values as the chart code sees them.  A value is              *)
(*   [t |-> typeof, k |-> kind, hi |-> h, lo |-> l, den |-> d];            *)
(* a number (t = "number") is NaN, +Infinity, -Infinity, or the finite     *)
(* value (h * 2^53 + l) / d.  Rows carry d = 1; h = 1 gives the doubles    *)
(* at and above 2^53, where consecutive doubles are 2 apart.               *)
(***************************************************************************)
Num(n) == [t |-> "number", k |-> "fin", hi |-> 0, lo |-> n, den |-> 1]
\* the double 2^53 + n
Big(n) == [t |-> "number", k |-> "fin", hi |-> 1, lo |-> n, den |-> 1]
NaN == [t |-> "number", k |-> "nan", hi |-> 0, lo |-> 0, den |-> 1]
PosInfinity == [t |-> "number", k |-> "inf", hi |-> 0, lo |-> 0, den |-> 1]
NegInfinity == [t |-> "number", k |-> "ninf", hi |-> 0, lo |-> 0, den |-> 1]
\* the string whose characters spell the number n
JsStr(n) == [t |-> "string", k |-> "", hi |-> 0, lo |-> n, den |-> 1]
\* null: typeof null is "object"
JsNull == [t |-> "object", k |-> "", hi |-> 0, lo |-> 0, den |-> 1]
JsUndefined == [t |-> "undefined", k |-> "", hi |-> 0, lo |-> 0, den |-> 1]

TypeOf(v) == v.t
\* isNaN(v) for a v of type number
IsNaN(v) == v.k = "nan"

RECURSIVE Pow2(_)
Pow2(n) == IF n = 0 THEN 1 ELSE 2 * Pow2(n - 1)

RECURSIVE Log2Floor(_)
Log2Floor(h) == IF h <= 1 THEN 0 ELSE 1 + Log2Floor(h \div 2)

\* the gap between consecutive doubles around h * 2^53 + l, for h >= 0 and
\* |l| < 2^52: 1 below 2^53, 2 from 2^53, 4 from 2^54, ...
Ulp(h, l) ==
    IF h = 0 THEN 1
    ELSE IF l < 0 /\ h = Pow2(Log2Floor(h)) THEN Pow2(Log2Floor(h))
    ELSE Pow2(Log2Floor(h) + 1)

\* l rounded to a multiple of u, to nearest, ties to the even multiple
RoundTiesToEven(l, u) ==
    LET q == l \div u
        r == l - q * u
    IN  IF 2 * r < u THEN q * u
        ELSE IF 2 * r > u THEN (q + 1) * u
        ELSE IF q % 2 = 0 THEN q * u
        ELSE (q + 1) * u

\* x + y on doubles (den = 1): the exact sum, rounded to the nearest double
JsAdd(x, y) ==
    IF x.k = "nan" \/ y.k = "nan" THEN NaN
    ELSE IF x.k = "inf" THEN (IF y.k = "ninf" THEN NaN ELSE PosInfinity)
    ELSE IF x.k = "ninf" THEN (IF y.k = "inf" THEN NaN ELSE NegInfinity)
    ELSE IF y.k = "inf" THEN PosInfinity
    ELSE IF y.k = "ninf" THEN NegInfinity
    ELSE LET h == x.hi + y.hi
             l == x.lo + y.lo
         IN  [t |-> "number", k |-> "fin", hi |-> h,
              lo |-> RoundTiesToEven(l, Ulp(h, l)), den |-> 1]

RECURSIVE Gcd(_, _)
Gcd(a, b) == IF b = 0 THEN a ELSE Gcd(b, a % b)

Abs(n) == IF n < 0 THEN -n ELSE n

\* -1, 0 or 1
SignOf(v) ==
    IF v.k = "inf" THEN 1
    ELSE IF v.k = "ninf" THEN -1
    ELSE IF v.hi > 0 \/ (v.hi = 0 /\ v.lo > 0) THEN 1
    ELSE IF v.hi = 0 /\ v.lo = 0 THEN 0
    ELSE -1

\* x / y on doubles, for a divisor below 2^53.  A finite quotient is kept
\* as the fraction in lowest terms (the double nearest to it is not
\* computed); the sign of a zero is not kept.
JsDiv(x, y) ==
    IF x.k = "nan" \/ y.k = "nan" THEN NaN
    ELSE IF x.k \in {"inf", "ninf"} THEN
        IF y.k \in {"inf", "ninf"} THEN NaN
        ELSE IF SignOf(x) * (IF SignOf(y) < 0 THEN -1 ELSE 1) > 0 THEN PosInfinity
        ELSE NegInfinity
    ELSE IF y.k \in {"inf", "ninf"} THEN Num(0)
    ELSE IF SignOf(y) = 0 THEN
        IF SignOf(x) = 0 THEN NaN
        ELSE IF SignOf(x) > 0 THEN PosInfinity
        ELSE NegInfinity
    ELSE LET g == Gcd(Gcd(Abs(x.hi), Abs(x.lo)), Abs(y.lo))
             s == IF y.lo < 0 THEN -1 ELSE 1
         IN  [t |-> "number", k |-> "fin", hi |-> s * (x.hi \div g),
              lo |-> s * (x.lo \div g), den |-> s * (y.lo \div g)]

(***************************************************************************)
(* Number to string, padStart and localeCompare, on character sequences.   *)
(***************************************************************************)
RECURSIVE NatToString(_)
NatToString(n) ==
    IF n < 10 THEN <<DigitChars[n + 1]>>
    ELSE NatToString(n \div 10) \o <<DigitChars[(n % 10) + 1]>>

\* String(v) for an integer v below 2^53, as in `${stat.year_val}`
NumberToString(v) ==
    IF v.lo < 0 THEN <<"-">> \o NatToString(-v.lo) ELSE NatToString(v.lo)

\* s.padStart(n, '0')
RECURSIVE PadStartZero(_, _)
PadStartZero(s, n) == IF Len(s) >= n THEN s ELSE PadStartZero(<<"0">> \o s, n)

\* the order localeCompare gives the characters of a month key
CharOrder == <<"-", "0", "1", "2", "3", "4", "5", "6", "7", "8", "9">>

CharRank(c) == CHOOSE i \in 1..Len(CharOrder) : CharOrder[i] = c

\* a.localeCompare(b): negative, zero or positive
RECURSIVE LocaleCompare(_, _)
LocaleCompare(a, b) ==
    IF a = <<>> /\ b = <<>> THEN 0
    ELSE IF a = <<>> THEN -1
    ELSE IF b = <<>> THEN 1
    ELSE IF Head(a) = Head(b) THEN LocaleCompare(Tail(a), Tail(b))
    ELSE IF CharRank(Head(a)) < CharRank(Head(b)) THEN -1
    ELSE 1

(***************************************************************************)
(* The rows a trade_stats query returns (TradeAnalysisChart.tsx:132-144).  *)
(* A row is null (present = FALSE) or an object with the four fields the   *)
(* chart reads.                                                            *)
(***************************************************************************)
Row(y, m, value, volume) ==
    [present |-> TRUE, year_val |-> y, month_val |-> m, value |-> value, volume |-> volume]

NullRow ==
    [present |-> FALSE, year_val |-> JsUndefined, month_val |-> JsUndefined,
     value |-> JsUndefined, volume |-> JsUndefined]

\* rows whose four fields are numbers and whose value and volume are not NaN
NumericRows ==
    { Row(Num(2024), Num(1), Num(100), Num(10)),
      Row(Num(2024), Num(1), Num(50), Num(5)),
      Row(Num(2024), Num(2), Num(200), Num(20)),
      Row(Num(2023), Num(12), Num(70), Num(0)),
      Row(Num(2023), Num(12), Num(0), Num(0)),
      Row(Num(10000), Num(1), Num(10), Num(1)),
      Row(Num(2024), Num(2), Num(-40), PosInfinity),
      Row(Num(2024), Num(1), Big(0), Num(10)),
      Row(Num(2024), Num(1), Num(1), Num(1)) }

\* rows with a field that is null, a string, missing or NaN, and the null row
MalformedRows ==
    { NullRow,
      Row(JsStr(2024), Num(1), Num(100), Num(10)),
      Row(Num(2024), JsUndefined, Num(100), Num(10)),
      Row(Num(2024), Num(1), JsNull, Num(10)),
      Row(Num(2024), Num(1), NaN, Num(10)),
      Row(Num(2024), Num(1), Num(100), NaN) }

RawRows == NumericRows \cup MalformedRows

\* a < b for the integers the rows use as year and month
NumLess(a, b) == a.lo < b.lo

\* .order('year_val').order('month_val'), lines 137-138: the rows that have
\* both as numbers are in ascending (year, month) order, rows of the same
\* period in any order
OrderedByPeriod(rows) ==
    \A i, j \in 1..Len(rows) :
        ( /\ i < j
          /\ TypeOf(rows[i].year_val) = "number" /\ TypeOf(rows[i].month_val) = "number"
          /\ TypeOf(rows[j].year_val) = "number" /\ TypeOf(rows[j].month_val) = "number" )
        => ~( \/ NumLess(rows[j].year_val, rows[i].year_val)
              \/ /\ rows[j].year_val = rows[i].year_val
                 /\ NumLess(rows[j].month_val, rows[i].month_val) )

SeqsUpTo(S, n) == UNION { [1..k -> S] : k \in 0..n }

\* the store's rows for .eq('hs_code_id', hsCode).eq('trade_flow', tradeFlow),
\* lines 135-136, listed in the order of lines 137-138
Tables == { rows \in SeqsUpTo(RawRows, MaxRows) : OrderedByPeriod(rows) }

\* new Date().getFullYear(), line 97
CurrentYear == 2024

TimeRanges == {"current", "two_years", "five_years"}

\* getTimeRangeFilter(range).startYear, lines 96-104
getTimeRangeFilter(range) ==
    CASE range = "current" -> CurrentYear
      [] range = "two_years" -> CurrentYear - 1
      [] range = "five_years" -> CurrentYear - 5

\* the rows the query of lines 132-144 selects from rows: with startYear > 0
\* those whose year_val is not below it (.gte, lines 140-142); a row whose
\* year_val is no number is left to the filter of lines 148-156
QueryResult(rows, startYear) ==
    LET Selected(row) ==
            \/ startYear <= 0
            \/ ~row.present
            \/ TypeOf(row.year_val) # "number"
            \/ ~NumLess(row.year_val, Num(startYear))
    IN  SelectSeq(rows, Selected)

(***************************************************************************)
(* fetchTradeStats' filter, lines 148-156.                                 *)
(***************************************************************************)
\* seeded fault in IsValidStat: the two isNaN tests of lines 154-155 left out
IsValidStatNoNaNTest(stat) ==
    /\ stat.present
    /\ TypeOf(stat.year_val) = "number"
    /\ TypeOf(stat.month_val) = "number"
    /\ TypeOf(stat.value) = "number"
    /\ TypeOf(stat.volume) = "number"

\* the filter callback
IsValidStat(stat) ==
    /\ stat.present
    /\ TypeOf(stat.year_val) = "number"
    /\ TypeOf(stat.month_val) = "number"
    /\ TypeOf(stat.value) = "number"
    /\ TypeOf(stat.volume) = "number"
    /\ ~IsNaN(stat.value)
    /\ ~IsNaN(stat.volume)

\* (data || []).filter(...)
validData(data) == SelectSeq(data, IsValidStat)

(***************************************************************************)
(* chartData, lines 168-201.  The Map is a sequence of its entries in      *)
(* insertion order; an entry is the chartData object, keyed by its month.  *)
(***************************************************************************)
\* line 174
monthKey(stat) ==
    NumberToString(stat.year_val) \o <<"-">>
        \o PadStartZero(NumberToString(stat.month_val), 2)

\* monthlyData.get(key) || {month: key, total_value: 0, ...}, lines 175-180
MapGetOrNew(map, key) ==
    IF \E i \in 1..Len(map) : map[i].month = key
    THEN map[CHOOSE i \in 1..Len(map) : map[i].month = key]
    ELSE [month |-> key, total_value |-> Num(0), volume |-> Num(0),
          value_per_volume |-> Num(0)]

\* seeded fault in Accumulate: = in place of += at lines 182-183
AccumulateOverwriting(currentData, stat) ==
    [currentData EXCEPT !.total_value = stat.value,
                        !.volume = stat.volume,
                        !.value_per_volume = JsDiv(stat.value, stat.volume)]

\* lines 182-184
Accumulate(currentData, stat) ==
    LET total == JsAdd(currentData.total_value, stat.value)
        vol == JsAdd(currentData.volume, stat.volume)
    IN  [currentData EXCEPT !.total_value = total,
                            !.volume = vol,
                            !.value_per_volume = JsDiv(total, vol)]

\* monthlyData.set(key, data), line 186: an existing key keeps its place
MapSet(map, data) ==
    IF \E i \in 1..Len(map) : map[i].month = data.month
    THEN [i \in 1..Len(map) |-> IF map[i].month = data.month THEN data ELSE map[i]]
    ELSE Append(map, data)

\* the forEach of lines 173-187, over stats[from..]
RECURSIVE GroupByMonth(_, _, _)
GroupByMonth(stats, from, map) ==
    IF from > Len(stats) THEN map
    ELSE GroupByMonth(stats, from + 1,
             MapSet(map, Accumulate(MapGetOrNew(map, monthKey(stats[from])), stats[from])))

\* Array.from(monthlyData.values()).map(data => ({...data, isLatest: false})),
\* lines 189-193
WithIsLatestFalse(map) ==
    [i \in 1..Len(map) |->
        [month |-> map[i].month, total_value |-> map[i].total_value,
         volume |-> map[i].volume, value_per_volume |-> map[i].value_per_volume,
         isLatest |-> FALSE]]

\* one step of the sort of line 194: x put into the sorted sequence, after
\* the elements it does not compare below
RECURSIVE InsertByMonth(_, _)
InsertByMonth(sorted, x) ==
    IF sorted = <<>> THEN <<x>>
    ELSE IF LocaleCompare(x.month, Head(sorted).month) < 0 THEN <<x>> \o sorted
    ELSE <<Head(sorted)>> \o InsertByMonth(Tail(sorted), x)

\* seeded fault in SortByMonth: the Map's insertion order kept, no sort
SortByMonthLeftOut(xs) == xs

\* .sort((a, b) => a.month.localeCompare(b.month)), line 194
RECURSIVE SortByMonth(_)
SortByMonth(xs) ==
    IF xs = <<>> THEN <<>>
    ELSE InsertByMonth(SortByMonth(SubSeq(xs, 1, Len(xs) - 1)), xs[Len(xs)])

\* lines 196-198
MarkLatest(sorted) ==
    IF Len(sorted) > 0
    THEN [sorted EXCEPT ![Len(sorted)].isLatest = TRUE]
    ELSE sorted

\* the useMemo callback
chartData(stats) ==
    IF Len(stats) = 0 THEN <<>>
    ELSE MarkLatest(SortByMonth(WithIsLatestFalse(GroupByMonth(stats, 1, <<>>))))

(***************************************************************************)
(* The chart component's fetches.  The component's hsCode prop and its     *)
(* tradeFlow stay as they are; the store's rows do not change.  The        *)
(* hsCodeDescription state (fetchHsCodeDescription, lines 111-125) only    *)
(* feeds the card header and is left out.                                  *)
(***************************************************************************)
FetchFailedToast == "Failed to fetch trade statistics"

\* values of the hsCode prop: the code the component is first rendered
\* with, and another one its parent may pass later
FirstCode == "0101210000"
OtherCode == "0101290000"
ChartCodes == {FirstCode, OtherCode}

\* the rows the store holds for the other code (same flow)
OtherRows == <<Row(Num(2024), Num(3), Num(30), Num(3))>>

\* the rows .eq('hs_code_id', code) selects, line 135
StoreRows(code) == IF code = FirstCode THEN table ELSE OtherRows

ChartInit ==
    /\ table \in Tables
    /\ mounted = FALSE
    /\ hsCodeProp = FirstCode
    /\ timeRange = "current"
    /\ loading = TRUE
    /\ tradeStats = <<>>
    /\ pending = <<>>
    /\ lastRaw = <<>>
    /\ toast = ""
    /\ session = FALSE
    /\ pathname = ""
    /\ stage = "none"
    /\ location = ""
    /\ hops = <<>>
    \* no submission is part of the chart: it stays as before the call
    /\ DEV_MODE = FALSE
    /\ pc = "start"
    /\ hsCode = JsString(<<>>)
    /\ tradeType = ""
    /\ payload = NoPayload
    /\ attempt = 0
    /\ events = <<>>
    /\ caught = <<>>
    /\ lookups = 0
    /\ described = <<>>
    /\ result = Pending

\* fetchTradeStats up to its await, lines 128-144, with code and range the
\* hsCode and timeRange of the render the effect belongs to
StartFetch(code, range) ==
    /\ loading' = TRUE
    /\ pending' = Append(pending, [hsCode |-> code,
                                   startYear |-> getTimeRangeFilter(range)])
    /\ toast' = ""
    /\ UNCHANGED <<table, tradeStats, lastRaw>>

\* the effect of lines 106-109 runs after the first render
Mount ==
    /\ ~mounted
    /\ mounted' = TRUE
    /\ StartFetch(hsCodeProp, timeRange)
    /\ UNCHANGED <<hsCodeProp, timeRange>>
    /\ UNCHANGED <<submitVars, routeVars>>

\* the user picks another time range (line 276; the control is rendered only
\* when loading is false, lines 239-245), and the effect runs again
SelectTimeRange ==
    /\ mounted
    /\ ~loading
    /\ Len(pending) < MaxInFlight
    /\ \E range \in TimeRanges \ {timeRange} :
         /\ timeRange' = range
         /\ StartFetch(hsCodeProp, range)
    /\ UNCHANGED <<mounted, hsCodeProp>>
    /\ UNCHANGED <<submitVars, routeVars>>

\* the parent renders the component with another hsCode, at any time after
\* the first render: the effect runs again (dependency list, line 109) and
\* nothing cancels the fetches still awaiting their query
HsCodeChanges ==
    /\ mounted
    /\ Len(pending) < MaxInFlight
    /\ \E code \in ChartCodes \ {hsCodeProp} :
         /\ hsCodeProp' = code
         /\ StartFetch(code, timeRange)
    /\ UNCHANGED <<mounted, timeRange>>
    /\ UNCHANGED <<submitVars, routeVars>>

RemoveAt(q, i) == SubSeq(q, 1, i - 1) \o SubSeq(q, i + 1, Len(q))

\* a pending query returns without error: lines 146-158, 164; hasData
\* FALSE is data = null, read as no rows by (data || [])
QueryReturns ==
    /\ \E i \in 1..Len(pending), hasData \in BOOLEAN :
         LET rows == QueryResult(StoreRows(pending[i].hsCode), pending[i].startYear)
             data == IF hasData THEN rows ELSE <<>>
         IN  /\ pending' = RemoveAt(pending, i)
             /\ lastRaw' = data
             /\ tradeStats' = validData(data)
    /\ loading' = FALSE
    /\ toast' = ""
    /\ UNCHANGED <<table, mounted, hsCodeProp, timeRange>>
    /\ UNCHANGED <<submitVars, routeVars>>

\* seeded fault in QueryFails: the setTradeStats([]) of line 162 left out
QueryFailsKeepingStats ==
    /\ \E i \in 1..Len(pending) : pending' = RemoveAt(pending, i)
    /\ lastRaw' = <<>>
    /\ toast' = FetchFailedToast
    /\ loading' = FALSE
    /\ UNCHANGED <<table, mounted, hsCodeProp, timeRange, tradeStats>>
    /\ UNCHANGED <<submitVars, routeVars>>

\* a pending query returns an error or throws: lines 146, 159-164
QueryFails ==
    /\ \E i \in 1..Len(pending) : pending' = RemoveAt(pending, i)
    /\ lastRaw' = <<>>
    /\ toast' = FetchFailedToast
    /\ tradeStats' = <<>>
    /\ loading' = FALSE
    /\ UNCHANGED <<table, mounted, hsCodeProp, timeRange>>
    /\ UNCHANGED <<submitVars, routeVars>>

ChartNext ==
    \/ Mount
    \/ SelectTimeRange
    \/ QueryReturns
    \/ QueryFails

\* the chart component, from its first render on, its hsCode prop staying
\* as it is
ChartSpec == ChartInit /\ [][ChartNext]_vars

\* The chart component while its parent changes the hsCode prop.
InFlightTables == { rows \in Tables : Len(rows) <= MaxRowsInFlight }

InFlightInit ==
    /\ table \in InFlightTables
    /\ mounted = FALSE
    /\ hsCodeProp = FirstCode
    /\ timeRange = "current"
    /\ loading = TRUE
    /\ tradeStats = <<>>
    /\ pending = <<>>
    /\ lastRaw = <<>>
    /\ toast = ""
    /\ session = FALSE
    /\ pathname = ""
    /\ stage = "none"
    /\ location = ""
    /\ hops = <<>>
    /\ DEV_MODE = FALSE
    /\ pc = "start"
    /\ hsCode = JsString(<<>>)
    /\ tradeType = ""
    /\ payload = NoPayload
    /\ attempt = 0
    /\ events = <<>>
    /\ caught = <<>>
    /\ lookups = 0
    /\ described = <<>>
    /\ result = Pending

InFlightNext ==
    \/ Mount
    \/ SelectTimeRange
    \/ HsCodeChanges
    \/ QueryReturns
    \/ QueryFails

InFlightSpec == InFlightInit /\ [][InFlightNext]_vars

(***************************************************************************)
(* The routing middleware, part_001.                                       *)
(***************************************************************************)
\* String.prototype.startsWith
StartsWith(str, prefix) ==
    Len(str) >= Len(prefix) /\ SubSeq(str, 1, Len(prefix)) = prefix

\* a matcher entry '<base>/:path*' matches base itself and every path
\* below it; config.matcher, lines 26-28
MatchesEntry(path, base) == path = base \/ StartsWith(path, base \o "/")
matcher(path) == MatchesEntry(path, "/dashboard") \/ MatchesEntry(path, "/auth")

\* paths a browser may ask for
Paths ==
    { "/", "/about", "/login", "/api/trade", "/dashboards", "/authors",
      "/dashboard", "/dashboard/", "/dashboard/trade", "/dashboard/trade/0101210000",
      "/dashboard/settings", "/dashboard/compare",
      "/auth", "/auth/login", "/auth/register", "/auth/callback",
      "/auth/login/reset", "/auth/forgot-password" }

PassThrough == [kind |-> "next", location |-> ""]
Redirect(target) == [kind |-> "redirect", location |-> target]

\* seeded fault in middleware: the second test without its session condition
middlewareRedirectingEveryAuth(hasSession, path) ==
    IF ~hasSession /\ StartsWith(path, "/dashboard") THEN Redirect("/auth/login")
    ELSE IF StartsWith(path, "/auth") THEN Redirect("/dashboard")
    ELSE PassThrough

\* the response of lines 14-23, given the session of lines 9-11
middleware(hasSession, path) ==
    IF ~hasSession /\ StartsWith(path, "/dashboard") THEN Redirect("/auth/login")
    ELSE IF hasSession /\ StartsWith(path, "/auth") THEN Redirect("/dashboard")
    ELSE PassThrough

\* a browser asks for a path; the session state stays as it is throughout
RouteInit ==
    /\ session \in BOOLEAN
    /\ pathname \in Paths
    /\ stage = "arrived"
    /\ location = ""
    /\ hops = <<pathname>>
    \* neither a submission nor the chart is part of routing
    /\ DEV_MODE = FALSE
    /\ pc = "start"
    /\ hsCode = JsString(<<>>)
    /\ tradeType = ""
    /\ payload = NoPayload
    /\ attempt = 0
    /\ events = <<>>
    /\ caught = <<>>
    /\ lookups = 0
    /\ described = <<>>
    /\ result = Pending
    /\ table = <<>>
    /\ mounted = FALSE
    /\ hsCodeProp = FirstCode
    /\ timeRange = "current"
    /\ loading = TRUE
    /\ tradeStats = <<>>
    /\ pending = <<>>
    /\ lastRaw = <<>>
    /\ toast = ""

\* the path is none the matcher names: the middleware does not run and the
\* request goes on to its route
Unmatched ==
    /\ stage = "arrived"
    /\ ~matcher(pathname)
    /\ stage' = "passed"
    /\ UNCHANGED <<session, pathname, location, hops>>
    /\ UNCHANGED <<submitVars, chartVars>>

\* middleware up to its await: lines 6-11
MiddlewareStarts ==
    /\ stage = "arrived"
    /\ matcher(pathname)
    /\ stage' = "session"
    /\ UNCHANGED <<session, pathname, location, hops>>
    /\ UNCHANGED <<submitVars, chartVars>>

\* getSession() returns: lines 13-23
GetSessionReturns ==
    /\ stage = "session"
    /\ LET response == middleware(session, pathname)
       IN  /\ stage' = IF response.kind = "redirect" THEN "redirected" ELSE "passed"
           /\ location' = response.location
    /\ UNCHANGED <<session, pathname, hops>>
    /\ UNCHANGED <<submitVars, chartVars>>

\* the browser follows the redirect: a new request for its target
FollowRedirect ==
    /\ stage = "redirected"
    /\ Len(hops) < MaxHops
    /\ pathname' = location
    /\ hops' = Append(hops, location)
    /\ stage' = "arrived"
    /\ location' = ""
    /\ UNCHANGED session
    /\ UNCHANGED <<submitVars, chartVars>>

RouteNext ==
    \/ Unmatched
    \/ MiddlewareStarts
    \/ GetSessionReturns
    \/ FollowRedirect

RouteSpec == RouteInit /\ [][RouteNext]_vars

(***************************************************************************)
(* Claims about the submission pipeline, checked under SubmitSpec.         *)
(***************************************************************************)

\* C1: with bypass mode off a submission posts at most 3 times; its posts
\* and backoffs alternate, starting with the post of attempt 1; the backoff
\* before attempt k is 1000 * (k - 1) ms; nothing follows the third post.
C1_RetryBoundAndBackoff ==
    ~DEV_MODE =>
        /\ Cardinality({i \in DOMAIN events : events[i].type = "post"}) <= 3
        /\ Len(events) <= 5
        /\ \A i \in DOMAIN events :
             IF i % 2 = 1
             THEN events[i].type = "post" /\ events[i].attempt = (i + 1) \div 2
             ELSE events[i].type = "delay" /\ events[i].ms = 1000 * (i \div 2)
        /\ (pc = "delay") = (Len(events) \in {2, 4})

\* C1's case: three attempts failed, two backoffs were waited
C1_Witness ==
    /\ ~DEV_MODE
    /\ pc = "done"
    /\ Len(caught) = 3
    /\ Len(events) = 5

ClassifiedMessages ==
    { "Request timed out. Please try again.",
      "Network error. Please check your internet connection.",
      "Invalid request: Please check HTS code format and trade type",
      "Unauthorized: Authentication failed",
      "Server error: Failed to process trade data" }

\* C2: when all 3 attempts failed, the rejection is the class of the third
\* failure's cause, whatever the first two were; code "1234567890" with
\* "Import" and HTTP 500 three times is rejected as ServerError.
C2_FinalFailureClassified ==
    (pc = "done" /\ Len(caught) = 3) =>
        LET last == caught[3]
        IN  /\ result.state = "rejected"
            /\ last.cause = "timeout" =>
                   result.message = "Request timed out. Please try again."
            /\ last.cause = "unreachable" =>
                   result.message = "Network error. Please check your internet connection."
            /\ last.cause = "http400" =>
                   result.message = "Invalid request: Please check HTS code format and trade type"
            /\ last.cause = "http401" =>
                   result.message = "Unauthorized: Authentication failed"
            /\ last.cause = "http500" =>
                   result.message = "Server error: Failed to process trade data"
            /\ last.cause \in {"http503", "other"} =>
                   /\ result.message \notin ClassifiedMessages
                   /\ last.message # "" =>
                          result.message = "Failed to process trade data: " \o last.message
            /\ ( /\ hsCode = JsString(<<"1", "2", "3", "4", "5", "6", "7", "8", "9", "0">>)
                 /\ tradeType = "Import"
                 /\ \A i \in 1..3 : caught[i].cause = "http500" ) =>
                   result = Rejected("Server error: Failed to process trade data")

\* C2's case: two different failures, then HTTP 500 on the third attempt
C2_Witness ==
    /\ pc = "done"
    /\ Len(caught) = 3
    /\ caught[1].cause = "timeout"
    /\ caught[2].cause = "http400"
    /\ caught[3].cause = "http500"
    /\ result.message = "Server error: Failed to process trade data"

\* C3: in bypass mode nothing is posted and no backoff is waited, and every
\* submission that passes validation resolves with success and with the
\* payload it was given, field for field.
C3_BypassEchoesPayload ==
    DEV_MODE =>
        /\ events = <<>>
        /\ pc \notin {"request", "delay"}
        /\ (pc = "done" /\ result.state # "rejected") =>
               /\ result.state = "resolved"
               /\ result.success
               /\ payload # NoPayload
               /\ result.data.hsCode = payload.hsCode
               /\ result.data.hsCodeDescription = payload.hsCodeDescription
               /\ result.data.tradeType = payload.tradeType
               /\ result.data.timestamp = payload.timestamp
               /\ result.data.requestId = payload.requestId

\* C3's case: a bypassed submission has resolved
C3_Witness ==
    /\ DEV_MODE
    /\ pc = "done"
    /\ result.state = "resolved"
    /\ result.data.requestId = "uuid-b"
    /\ result.data.hsCodeDescription = "Live horses"

\* v is a string that is whitespace, then exactly 10 decimal digits, then
\* whitespace
TenDigitsAfterTrim(v) ==
    /\ v.t = "string"
    /\ \E i \in 0..Len(v.s) :
          /\ i + 10 <= Len(v.s)
          /\ \A k \in 1..i : v.s[k] \in {" ", "\t", "\n"}
          /\ \A k \in (i + 1)..(i + 10) :
                v.s[k] \in {"0", "1", "2", "3", "4", "5", "6", "7", "8", "9"}
          /\ \A k \in (i + 11)..Len(v.s) : v.s[k] \in {" ", "\t", "\n"}

\* C4: the code check passes exactly for the strings that are 10 decimal
\* digits after trimming; every other value is rejected with the
\* invalid-format error.
C4_CodeAcceptedIffTenDigits ==
    pc # "start" =>
        ((result = Rejected(InvalidCodeMsg)) <=> ~TenDigitsAfterTrim(hsCode))

\* C4's case: a padded code was accepted
C4_Witness ==
    /\ pc = "lookup"
    /\ hsCode.t = "string"
    /\ Len(hsCode.s) > 10
    /\ Head(hsCode.s) \in {" ", "\t"}

(***************************************************************************)
(* Claims about the aggregation pipeline, checked under ChartSpec.         *)
(***************************************************************************)

\* the (year, month) pairs that occur in stats
PeriodsOf(stats) == { <<stats[i].year_val, stats[i].month_val>> : i \in 1..Len(stats) }

\* the observations of period p, in input order
ObservationsOf(stats, p) ==
    LET InPeriod(st) == <<st.year_val, st.month_val>> = p
    IN  SelectSeq(stats, InPeriod)

\* the period key "YYYY-MM" of period p
KeyOfPeriod(p) == monthKey(Row(p[1], p[2], Num(0), Num(0)))

\* value summed over stats in input order, in double arithmetic
RECURSIVE SumOfValues(_)
SumOfValues(stats) ==
    IF stats = <<>> THEN Num(0)
    ELSE JsAdd(SumOfValues(SubSeq(stats, 1, Len(stats) - 1)), stats[Len(stats)].value)

\* volume summed over stats in input order, in double arithmetic
RECURSIVE SumOfVolumes(_)
SumOfVolumes(stats) ==
    IF stats = <<>> THEN Num(0)
    ELSE JsAdd(SumOfVolumes(SubSeq(stats, 1, Len(stats) - 1)), stats[Len(stats)].volume)

\* u is the quotient total / volume of two finite numbers, volume not 0
IsQuotient(u, total, volume) ==
    /\ u.k = "fin"
    /\ u.den # 0
    /\ u.hi * volume.lo = total.hi * u.den
    /\ u.lo * volume.lo = total.lo * u.den

ExampleStats ==
    << Row(Num(2024), Num(1), Num(100), Num(10)),
       Row(Num(2024), Num(1), Num(50), Num(5)),
       Row(Num(2024), Num(2), Num(200), Num(20)) >>

ExampleAggregates ==
    << [month |-> <<"2", "0", "2", "4", "-", "0", "1">>, total_value |-> Num(150),
        volume |-> Num(15), value_per_volume |-> Num(10), isLatest |-> FALSE],
       [month |-> <<"2", "0", "2", "4", "-", "0", "2">>, total_value |-> Num(200),
        volume |-> Num(20), value_per_volume |-> Num(10), isLatest |-> TRUE] >>

\* C5: the aggregates are one per (year, month) of the input and none
\* besides; each carries the sums of its period's values and volumes (double
\* sums, in input order) and, where the total volume is finite and not 0,
\* the quotient of the two totals; the three example observations give
\* 2024-01: 150/15/10 and 2024-02: 200/20/10.
C5_OneAggregatePerPeriod ==
    LET out == chartData(tradeStats)
        periods == PeriodsOf(tradeStats)
    IN  /\ Len(out) = Cardinality(periods)
        /\ \A i \in 1..Len(out) : \E p \in periods : out[i].month = KeyOfPeriod(p)
        /\ \A p \in periods :
             LET obs == ObservationsOf(tradeStats, p)
                 hits == { i \in 1..Len(out) : out[i].month = KeyOfPeriod(p) }
             IN  /\ Cardinality(hits) = 1
                 /\ \A i \in hits :
                      /\ out[i].total_value = SumOfValues(obs)
                      /\ out[i].volume = SumOfVolumes(obs)
                      /\ ( /\ out[i].total_value.k = "fin"
                           /\ out[i].volume.k = "fin"
                           /\ out[i].volume # Num(0) )
                         => IsQuotient(out[i].value_per_volume,
                                       out[i].total_value, out[i].volume)
        /\ tradeStats = ExampleStats => out = ExampleAggregates

\* C5's case: the example observations were fetched
C5_Witness ==
    /\ ~loading
    /\ tradeStats = ExampleStats

\* p is not chronologically after q
NotAfter(p, q) ==
    \/ NumLess(p[1], q[1])
    \/ p[1] = q[1] /\ ~NumLess(q[2], p[2])

\* C6: at most one aggregate is marked isLatest; a non-empty output has
\* exactly one, on the aggregate of the chronologically greatest
\* (year, month) of the input; an empty input gives an empty output.
C6_LatestIsChronologicallyLast ==
    LET out == chartData(tradeStats)
        periods == PeriodsOf(tradeStats)
        marked == { i \in 1..Len(out) : out[i].isLatest }
    IN  /\ Cardinality(marked) <= 1
        /\ tradeStats = <<>> => out = <<>>
        /\ out # <<>> =>
             /\ Cardinality(marked) = 1
             /\ \A i \in marked : \E p \in periods :
                  /\ out[i].month = KeyOfPeriod(p)
                  /\ \A q \in periods : NotAfter(q, p)

\* C7: an aggregate whose total volume is 0 has no unit price, and no
\* aggregate has a unit price that is NaN or infinite.
C7_NoUnitPriceOnZeroVolume ==
    LET out == chartData(tradeStats)
    IN  \A i \in 1..Len(out) :
            /\ out[i].volume = Num(0) => out[i].value_per_volume = JsUndefined
            /\ out[i].value_per_volume.k \notin {"nan", "inf", "ninf"}

\* the row is an object whose year, month, value and volume are numbers,
\* value and volume not NaN
WellFormedRow(row) ==
    /\ row # NullRow
    /\ \A v \in {row.year_val, row.month_val, row.value, row.volume} : v.t = "number"
    /\ row.value # NaN
    /\ row.volume # NaN

\* the k-th smallest element of the set of numbers S
KthOf(S, k) == CHOOSE i \in S : Cardinality({ j \in S : j < i }) = k - 1

\* C8: tradeStats is the subsequence of the fetched rows that are
\* well-formed, each unmodified and in its original order.
C8_ValidatorKeepsExactlyWellFormed ==
    LET kept == { i \in 1..Len(lastRaw) : WellFormedRow(lastRaw[i]) }
    IN  /\ Len(tradeStats) = Cardinality(kept)
        /\ \A k \in 1..Len(tradeStats) : tradeStats[k] = lastRaw[KthOf(kept, k)]

\* C8's case: a malformed row between two well-formed ones was dropped
C8_Witness ==
    /\ Len(lastRaw) = 3
    /\ ~WellFormedRow(lastRaw[2])
    /\ tradeStats = <<lastRaw[1], lastRaw[3]>>

\* C9: every observation in tradeStats has a finite value >= 0 and a finite
\* volume >= 0.
C9_ObservationsNonNegativeFinite ==
    \A i \in 1..Len(tradeStats) :
        /\ tradeStats[i].value.k = "fin"
        /\ tradeStats[i].volume.k = "fin"
        /\ SignOf(tradeStats[i].value) >= 0
        /\ SignOf(tradeStats[i].volume) >= 0

\* the rearrangements of seq
PermutationsOf(seq) ==
    { [i \in 1..Len(seq) |-> seq[f[i]]] : f \in Permutations(1..Len(seq)) }

\* C10 as stated: every rearrangement of the input gives the identical
\* output sequence.
C10_IdenticalForEveryPermutation ==
    LET out == chartData(tradeStats)
    IN  \A other \in PermutationsOf(tradeStats) : chartData(other) = out

\* the periods and isLatest flags of an output, in order
PeriodsAndFlags(out) ==
    [i \in 1..Len(out) |-> [month |-> out[i].month, isLatest |-> out[i].isLatest]]

\* no value or volume of stats is at or above 2^53, so no sum of them rounds
SumsAreExact(stats) ==
    \A i \in 1..Len(stats) : stats[i].value.hi = 0 /\ stats[i].volume.hi = 0

\* C10, amended: every rearrangement of the input gives the same periods in
\* the same order with the same isLatest flags, and the identical output
\* when no sum of values or volumes rounds.
C10_IdenticalUpToRounding ==
    LET out == chartData(tradeStats)
        exact == SumsAreExact(tradeStats)
    IN  \A other \in PermutationsOf(tradeStats) :
            LET permuted == chartData(other)
            IN  IF exact
                THEN permuted = out
                ELSE PeriodsAndFlags(permuted) = PeriodsAndFlags(out)

\* C10's case: three observations of two periods whose sums are exact, so
\* that rearranging them changes the input
C10_Witness ==
    /\ Len(tradeStats) = 3
    /\ tradeStats[1].month_val # tradeStats[3].month_val
    /\ tradeStats[1].value # tradeStats[2].value
    /\ SumsAreExact(tradeStats)

(***************************************************************************)
(* Claims about the submission, continued (SubmitSpec).                    *)
(***************************************************************************)
\* C11: when post number k resolves, makeRequest returns that response at
\* once: the promise is resolved with response.data, post k is the last
\* event (no delay after it, no post k+1), the k-1 errors caught before are
\* in no way part of the result, and no step of the submission follows.
C11_SuccessReturnsAtOnce ==
    /\ [](~DEV_MODE /\ result.state = "resolved" =>
            /\ pc = "done"
            /\ attempt \in 1..3
            /\ \E body \in ResponseBodies : result = ResolvedWith(body)
            /\ Len(caught) = attempt - 1
            /\ Len(events) = 2 * attempt - 1
            /\ events[Len(events)] = PostEvent(payload, attempt)
            /\ \A i \in DOMAIN caught :
                   result.message # ClassifyFailure(caught[i]))
    /\ [][result.state # "resolved"]_vars

\* C11's case: the second post resolves after the first one failed
C11_Witness ==
    /\ ~DEV_MODE
    /\ result.state = "resolved"
    /\ attempt = 2
    /\ Len(caught) = 1

\* C12: every post of one submission carries the payload built once at
\* lines 108-114: same code, description, direction, timestamp and
\* requestId on attempt 1, 2 and 3; once built the payload never changes.
C12_SamePayloadOnEveryAttempt ==
    /\ [](\A i \in DOMAIN events :
            events[i].type = "post" =>
                /\ events[i].body = payload
                /\ events[i].body # NoPayload
                /\ \A j \in DOMAIN events :
                       events[j].type = "post" =>
                           /\ events[j].body.requestId = events[i].body.requestId
                           /\ events[j].body.timestamp = events[i].body.timestamp
                           /\ events[j].body.hsCode = events[i].body.hsCode
                           /\ events[j].body.hsCodeDescription
                                  = events[i].body.hsCodeDescription
                           /\ events[j].body.tradeType = events[i].body.tradeType)
    /\ [][payload # NoPayload => payload' = payload]_vars

\* C12's case: all three posts were made
C12_Witness ==
    /\ ~DEV_MODE
    /\ Cardinality({i \in DOMAIN events : events[i].type = "post"}) = 3

\* C13: whether a failed post is retried depends on the attempt number
\* alone.  Whatever error post k < 3 threw (timeout, unreachable, HTTP 400,
\* 401, 500, 503, anything else), it is followed by the delay of 1000 * k ms
\* and then by post k + 1, the promise staying pending; a dispatch failure
\* reaches the caller only with three errors caught.
C13_RetryWhateverTheFailure ==
    /\ [](~DEV_MODE =>
            /\ \A k \in DOMAIN caught :
                   k < 3 =>
                       /\ Len(events) >= 2 * k
                       /\ events[2 * k] = DelayEvent(1000 * k, k)
                       /\ IF Len(events) = 2 * k
                          THEN pc = "delay" /\ result = Pending
                          ELSE events[2 * k + 1] = PostEvent(payload, k + 1)
            /\ (/\ result.state = "rejected"
                /\ result.message \notin {InvalidCodeMsg, InvalidTypeMsg})
                   => Len(caught) = 3)
    /\ [][(pc = "request" /\ attempt < 3 /\ caught' # caught)
              => (pc' = "delay" /\ result' = Pending)]_vars
    /\ [][pc = "delay" => (pc' = "request" /\ attempt' = attempt + 1)]_vars

\* C13's case: a 400 and then a 401, both retried, the third post under way
C13_Witness ==
    /\ ~DEV_MODE
    /\ pc = "request"
    /\ attempt = 3
    /\ Len(caught) = 2
    /\ caught[1].cause = "http400"
    /\ caught[2].cause = "http401"

\* C14: when the code check or the direction check fails, the submission
\* is rejected with the check's message and nothing else has happened or
\* happens: no description query, no payload, no post, no delay, no error
\* caught by the retry loop, and no step after the rejection.
C14_InvalidInputBeforeAnythingElse ==
    /\ []((~TenDigitsAfterTrim(hsCode) \/ tradeType \notin {"Import", "Export"}) =>
            /\ lookups = 0
            /\ payload = NoPayload
            /\ events = <<>>
            /\ caught = <<>>
            /\ attempt = 0
            /\ pc \in {"start", "done"}
            /\ pc = "start" => result = Pending
            /\ pc = "done" =>
                  /\ result.state = "rejected"
                  /\ result.message \in {InvalidCodeMsg, InvalidTypeMsg})
    /\ [][result.message \notin {InvalidCodeMsg, InvalidTypeMsg}]_vars

\* C14's case: a well-formed code with a direction that is not recognised
C14_Witness ==
    /\ pc = "done"
    /\ TenDigitsAfterTrim(hsCode)
    /\ tradeType = "import"
    /\ result = Rejected(InvalidTypeMsg)
    /\ lookups = 0

\* C15: for a validated code the description lookup never fails.  When the
\* query throws, returns an error, returns no record or an empty
\* description, the description is 'Description not available'; a found
\* non-empty description is returned as is.  Either way the payload is
\* built with it and dispatched: no rejection comes from the lookup.
C15_LookupNeverFails ==
    /\ Len(described) = (IF pc \in {"start", "lookup"} THEN 0 ELSE lookups)
    /\ pc = "lookup" => result = Pending
    /\ (/\ pc \notin {"start", "lookup"}
        /\ TenDigitsAfterTrim(hsCode)
        /\ tradeType \in {"Import", "Export"}) =>
           /\ Len(described) = 1
           /\ LET o == described[1]
                  found == ~o.threw /\ ~o.error /\ o.hasData /\ o.description # ""
              IN  payload.hsCodeDescription =
                      IF found THEN o.description ELSE "Description not available"
           /\ IF DEV_MODE
              THEN result = ResolvedBypass(payload)
              ELSE /\ Len(events) >= 1
                   /\ events[1] = PostEvent(payload, 1)
                   /\ result.state = "rejected" => Len(caught) = 3

\* C15's case: the query threw and the submission is being posted
C15_Witness ==
    /\ pc = "request"
    /\ Len(described) = 1
    /\ described[1].threw
    /\ events = <<PostEvent(payload, 1)>>
    /\ payload.hsCodeDescription = "Description not available"


\* C19: the direction is accepted exactly when it is the string 'Import' or
\* the string 'Export' (no trimming, no case folding); with any other
\* direction the submission fails with an InvalidInput message, and an
\* accepted direction is the payload's tradeType, unchanged, on every post.
C19_DirectionAcceptedIffImportOrExport ==
    pc # "start" =>
        /\ TenDigitsAfterTrim(hsCode) =>
              ((result = Rejected(InvalidTypeMsg))
                   <=> (tradeType # "Import" /\ tradeType # "Export"))
        /\ (tradeType # "Import" /\ tradeType # "Export") =>
              /\ result.state = "rejected"
              /\ result.message \in {InvalidCodeMsg, InvalidTypeMsg}
              /\ payload = NoPayload
        /\ (pc # "lookup" /\ result.message \notin {InvalidCodeMsg, InvalidTypeMsg}) =>
              /\ tradeType \in {"Import", "Export"}
              /\ payload.tradeType = tradeType
              /\ \A i \in DOMAIN events :
                     events[i].type = "post" => events[i].body.tradeType = tradeType

\* C19's case: an Export submission whose second post is under way
C19_Witness ==
    /\ pc = "request"
    /\ attempt = 2
    /\ tradeType = "Export"
    /\ events[3].body.tradeType = "Export"

\* C18: with every post settling and every backoff timer firing, every
\* submission terminates: its promise is eventually resolved or rejected.
C18_EverySubmissionTerminates ==
    <>(pc = "done" /\ result.state \in {"resolved", "rejected"})

(***************************************************************************)
(* Claims about the chart's fetches.                                       *)
(***************************************************************************)
\* C16: when the query of a fetch fails, the step that handles the failure
\* reports it and leaves tradeStats empty, hence an empty chartData, with
\* loading false: neither rows of the failed request nor the rows held
\* before remain.
C16_FailedQueryLeavesNothing ==
    /\ [](toast = FetchFailedToast =>
            /\ tradeStats = <<>>
            /\ chartData(tradeStats) = <<>>
            /\ ~loading)
    /\ [][Len(pending') < Len(pending) =>
             \/ toast' = FetchFailedToast /\ tradeStats' = <<>> /\ ~loading'
             \/ toast' = "" /\ tradeStats' = validData(lastRaw') /\ ~loading']_vars

\* C16's case: the first fetch could bring valid rows, and the fetch for
\* another time range has just failed
C16_Witness ==
    /\ toast = FetchFailedToast
    /\ timeRange = "five_years"
    /\ pending = <<>>
    /\ validData(QueryResult(table, getTimeRangeFilter("current"))) # <<>>
    /\ validData(QueryResult(table, getTimeRangeFilter("five_years"))) # <<>>

\* what the fetch issued last can leave in tradeStats: the valid rows of
\* its query, or nothing (its query failed or returned no data)
OutcomesOfLatestRequest ==
    { validData(QueryResult(StoreRows(hsCodeProp), getTimeRangeFilter(timeRange))),
      <<>> }

\* C17: fetches in flight together do not interfere: once every one of
\* them has completed, in whatever order, tradeStats and the chartData
\* derived from it are those of the fetch issued last (the one for the
\* current hsCode and timeRange), never those of an earlier fetch.
C17_LatestRequestWins ==
    (mounted /\ pending = <<>>) =>
        /\ tradeStats \in OutcomesOfLatestRequest
        /\ chartData(tradeStats) \in { chartData(stats) : stats \in OutcomesOfLatestRequest }

(***************************************************************************)
(* Claims about the aggregation pipeline, continued (ChartSpec).           *)
(***************************************************************************)
\* period p is strictly before period q, year and month compared as numbers
Before(p, q) == NotAfter(p, q) /\ p # q

\* C20: the aggregates come out in strictly ascending chronological order
\* of (year, month): for every two periods of the validated input, the
\* string comparison of their keys orders them as comparing year and month
\* numerically does.
C20_KeyOrderIsChronological ==
    LET out == chartData(tradeStats)
        periods == PeriodsOf(tradeStats)
    IN  /\ \A i \in 1..(Len(out) - 1) :
               \E p \in periods, q \in periods :
                   /\ out[i].month = KeyOfPeriod(p)
                   /\ out[i + 1].month = KeyOfPeriod(q)
                   /\ Before(p, q)
        /\ \A p \in periods, q \in periods :
               (LocaleCompare(KeyOfPeriod(p), KeyOfPeriod(q)) < 0) <=> Before(p, q)

\* calendar years a time range is meant to span
YearsSpanned(range) ==
    CASE range = "current" -> 1
      [] range = "two_years" -> 2
      [] range = "five_years" -> 5

\* C21: the window a fetch queries with runs from its startYear through
\* the current year and spans exactly 1 calendar year for 'current', 2 for
\* 'two_years' and 5 for 'five_years'.
C21_WindowSpansSelectedYears ==
    \A i \in DOMAIN pending :
        /\ pending[i].startYear > 0
        /\ CurrentYear - pending[i].startYear + 1 = YearsSpanned(timeRange)

(***************************************************************************)
(* Claims about the chart's fetches, continued (InFlightSpec).             *)
(***************************************************************************)
\* C22: once the effect has run, loading is true in every state in which a
\* fetchTradeStats call awaits its query, also when a second call started
\* before the first completed, and false when none does.
C22_LoadingWhileAnyFetchInFlight ==
    mounted => (loading <=> pending # <<>>)

(***************************************************************************)
(* Claims about the routing middleware (RouteSpec).                        *)
(***************************************************************************)
\* path is base or lies below it
Under(path, base) ==
    \/ path = base
    \/ Len(path) > Len(base) /\ SubSeq(path, 1, Len(base) + 1) = base \o "/"

\* C23: a request without a session never passes through to a path under
\* /dashboard: it is redirected to /auth/login; a request with a session
\* for a path under /auth is redirected to /dashboard; and with the session
\* state unchanged a redirect is never followed by another one: its target
\* is passed through on the next request.
C23_RedirectsAndNeverLoops ==
    /\ (~session /\ stage = "passed") => ~Under(pathname, "/dashboard")
    /\ (~session /\ Under(pathname, "/dashboard") /\ stage \in {"passed", "redirected"}) =>
           (stage = "redirected" /\ location = "/auth/login")
    /\ (session /\ Under(pathname, "/auth") /\ stage \in {"passed", "redirected"}) =>
           (stage = "redirected" /\ location = "/dashboard")
    /\ stage = "redirected" => Len(hops) = 1
    /\ Len(hops) <= 2
    /\ (Len(hops) = 2 /\ stage \notin {"arrived", "session"}) => stage = "passed"
    /\ \A i \in DOMAIN hops, j \in DOMAIN hops : i # j => hops[i] # hops[j]

\* C23's case: without a session a dashboard page was asked for, and the
\* login page its redirect led to has been passed through
C23_Witness ==
    /\ ~session
    /\ hops = <<"/dashboard/trade", "/auth/login">>
    /\ pathname = "/auth/login"
    /\ stage = "passed"

====
